---- MODULE Spec2Model ----
(***************************************************************************)
(* Ethereum-fund-flow-analysis: the concurrent fetcher                     *)
(* (FetchAllTransactions / executeTask), the AnalysisService of            *)
(* internal/services/analysis.go, the aggregation of ProcessTransactions,  *)
(* the handlers' parseQueryParams and filterBeneficiaries / filterPayers,  *)
(* and the Etherscan clients.                                              *)
(***************************************************************************)
EXTENDS Integers, Sequences, FiniteSets, TLC

VARIABLES
    upstream,        \* the upstream provider's answer to each category's call
    calls,           \* how many times each category's Get* method has been called
    mainPc,          \* FetchAllTransactions: "launch" | "wait" | "returned"
    launchIdx,       \* index into fetchTasks of the next task to launch
    taskPc,          \* executeTask, per category: position of the goroutine
    taskTxs,         \* executeTask local txs, per category
    taskErr,         \* executeTask local err, per category
    mu,              \* sync.Mutex: "free" or the category holding it
    wg,              \* sync.WaitGroup counter
    result,          \* the shared TransactionCollection
    fetchRet,        \* what FetchAllTransactions returned
    svcOutgoing,     \* AnalysisService: TRUE in AnalyzeBeneficiaries, FALSE in AnalyzePayers
    svcPc,           \* AnalysisService: "fetch" | "aggregate" | "returned"
    svcIdx,          \* AnalysisService: which of the five Get* calls is next
    svcTxs,          \* AnalysisService: normalTxs, internalTxs, erc20Txs, ...
    svcRet,          \* AnalysisService: the (list, error) returned
    txCollection,    \* ProcessTransactions: the txCollection argument
    isOutgoing,      \* ProcessTransactions: the isOutgoing argument
    procPc,          \* ProcessTransactions: "start" | "done"
    entityMap,       \* ProcessTransactions: the map returned
    query,           \* handler: the request's query parameters
    aggregates,      \* handler: the list the service returns for the request
    params,          \* handler: the FilterAndSortParams parsed
    filterPc,        \* handler: "parse" | "validate" | "analyze" | "filter" |
                     \*          "done" | "rejected" | "failed"
    filteredBeneficiaries,  \* handler: the list put in the response
    clientPkg,       \* Client: the package of the Client the calls go to
    reqParams,       \* Client: the EtherscanRequestParams of the request
    issued,          \* Client: the endpoint each Get* call has requested
    convValue,       \* conversions: the value text passed to the conversion
    convDecimal,     \* conversions: the tokenDecimal passed with it
    convCall,        \* conversions: "none" or the conversion that was called
    convAmount       \* conversions: the amount returned

fetchVars == <<mainPc, launchIdx, taskPc, taskTxs, taskErr, mu, wg, result,
               fetchRet>>

svcVars == <<svcOutgoing, svcPc, svcIdx, svcTxs, svcRet>>

procVars == <<txCollection, isOutgoing, procPc, entityMap>>

filterVars == <<query, aggregates, params, filterPc, filteredBeneficiaries>>

clientVars == <<clientPkg, reqParams, issued>>

convVars == <<convValue, convDecimal, convCall, convAmount>>

vars == <<upstream, calls, fetchVars, svcVars, procVars, filterVars, clientVars,
          convVars>>

-----------------------------------------------------------------------------
(* Bounds                                                                  *)

\* longest feed the upstream returns for one category in the fetch models
MaxFeedLen == 1

-----------------------------------------------------------------------------
(* Categories and the fetch tasks                                          *)

\* the order of the fetchTasks slice
CategoryOrder == <<"normal", "internal", "erc20", "erc721", "erc1155">>

Categories == {CategoryOrder[i] : i \in 1..Len(CategoryOrder)}

\* FetchTask.Name
TaskName(c) ==
    CASE c = "normal"   -> "normal transactions"
      [] c = "internal" -> "internal transactions"
      [] c = "erc20"    -> "ERC20 transfers"
      [] c = "erc721"   -> "ERC721 transfers"
      [] c = "erc1155"  -> "ERC1155 transfers"

\* the action each Client.Get* method puts in the endpoint
ActionOf(c) ==
    CASE c = "normal"   -> "txlist"
      [] c = "internal" -> "txlistinternal"
      [] c = "erc20"    -> "tokentx"
      [] c = "erc721"   -> "tokennfttx"
      [] c = "erc1155"  -> "token1155tx"

-----------------------------------------------------------------------------
(* Values: Go slices and errors                                            *)

NilSlice == [isNil |-> TRUE, elems |-> <<>>]

Slice(s) == [isNil |-> FALSE, elems |-> s]

NilError == [isNil |-> TRUE]

\* makeRequest's error for one endpoint
RequestError(c) == [isNil |-> FALSE, msg |-> "error making request", action |-> ActionOf(c)]

-----------------------------------------------------------------------------
(* Addresses.  An address string is its hexadecimal digits read without    *)
(* case, and the case its letters are written in.                          *)

Address(h, u) == [hex |-> h, upper |-> u]

\* strings.ToLower
ToLower(a) == [a EXCEPT !.upper = FALSE]

\* strings.EqualFold
EqualFold(x, y) == ToLower(x) = ToLower(y)

-----------------------------------------------------------------------------
(* Amounts.  A decimal number m * 10^x: big.Int values have x >= 0, the    *)
(* quotients of big.Float.Quo by a power of ten any x.  Float64 rounding   *)
(* is not modelled.                                                        *)

RECURSIVE Pow10(_)
Pow10(n) == IF n <= 0 THEN 1 ELSE 10 * Pow10(n - 1)

RECURSIVE DecNorm(_)
DecNorm(d) ==
    IF d.m = 0 THEN [m |-> 0, x |-> 0]
    ELSE IF d.m % 10 = 0 THEN DecNorm([m |-> d.m \div 10, x |-> d.x + 1])
    ELSE d

Dec(m, x) == DecNorm([m |-> m, x |-> x])

DecZero == Dec(0, 0)

DecOne == Dec(1, 0)

\* float64 +=
DecAdd(a, b) ==
    LET x == IF a.x < b.x THEN a.x ELSE b.x
    IN  DecNorm([m |-> a.m * Pow10(a.x - x) + b.m * Pow10(b.x - x), x |-> x])

\* big.Float.Quo by 10^e
DecQuoPow10(d, e) == DecNorm([m |-> d.m, x |-> d.x - e])

\* a nil *BigInt: the field was absent from the upstream's record
NilBigInt == [isNil |-> TRUE]

\* (*BigInt).String: the base-10 text of the integer, "<nil>" for a nil pointer
BigIntString(v) ==
    IF v = NilBigInt THEN [text |-> "<nil>"] ELSE [text |-> "base10", digits |-> v]

\* the decimal digits, '0' first
DigitChars == <<"0", "1", "2", "3", "4", "5", "6", "7", "8", "9">>

IsDigit(ch) == \E i \in 1..Len(DigitChars) : DigitChars[i] = ch

\* ch - '0'
DigitValue(ch) == (CHOOSE i \in 1..Len(DigitChars) : DigitChars[i] = ch) - 1

\* the scan of the digits, most significant first: z = z*10 + digit
RECURSIVE ScanDigits(_, _)
ScanDigits(z, chars) ==
    IF chars = <<>> THEN z
    ELSE ScanDigits(z * 10 + DigitValue(Head(chars)), Tail(chars))

\* a text given character by character
Literal(chars) == [text |-> "literal", chars |-> chars]

\* the scan of a base-10 literal: an optional sign, then one or more digits
\* and nothing else
SetString(chars) ==
    LET signed == chars # <<>> /\ Head(chars) \in {"+", "-"}
        neg    == chars # <<>> /\ Head(chars) = "-"
        body   == IF signed THEN Tail(chars) ELSE chars
    IN  IF body = <<>> \/ \E i \in 1..Len(body) : ~IsDigit(body[i])
        THEN [ok |-> FALSE, z |-> 0]
        ELSE [ok |-> TRUE, z |-> IF neg THEN 0 - ScanDigits(0, body)
                                 ELSE ScanDigits(0, body)]

\* big.Int.SetString(s, 10) / big.Float.SetString(s) on a fresh number, the
\* ok result dropped: the digits of a base-10 text, and a text that does not
\* parse leaves the fresh number at zero
ParseBase10(s) ==
    IF s.text = "base10" THEN s.digits
    ELSE IF s.text = "literal" /\ SetString(s.chars).ok THEN Dec(SetString(s.chars).z, 0)
    ELSE DecZero

\* const weiToEther = 1e18
WeiDecimals == 18

\* utils.ConvertWeiToEther
ConvertWeiToEther(weiValue) == DecQuoPow10(ParseBase10(weiValue), WeiDecimals)

\* the token conversion dividing by 1e18 whatever the token's decimals
ConvertTokenValueAsWei(value, tokenDecimal) ==
    DecQuoPow10(ParseBase10(value), WeiDecimals)

\* utils.ConvertTokenValueWithDecimals
ConvertTokenValueWithDecimals(value, tokenDecimal) ==
    DecQuoPow10(ParseBase10(value), tokenDecimal)

\* utils.FormatTimestamp
FormatTimestamp(timestamp) == [layout |-> "2006-01-02 15:04:05", unix |-> timestamp]

-----------------------------------------------------------------------------
(* Transaction records of the five categories (internal/models)            *)

NormalTx(h, ts, f, t, v, e) ==
    [cat |-> "normal", hash |-> h, timeStamp |-> ts, from |-> f, to |-> t,
     value |-> v, isError |-> e]

InternalTx(h, ts, f, t, v, e) ==
    [cat |-> "internal", hash |-> h, timeStamp |-> ts, from |-> f, to |-> t,
     value |-> v, isError |-> e]

ERC20Transfer(h, ts, f, t, v, d) ==
    [cat |-> "erc20", hash |-> h, timeStamp |-> ts, from |-> f, to |-> t,
     value |-> v, tokenDecimal |-> d]

ERC721Transfer(h, ts, f, t, d) ==
    [cat |-> "erc721", hash |-> h, timeStamp |-> ts, from |-> f, to |-> t,
     tokenDecimal |-> d]

ERC1155Transfer(h, ts, f, t, tv, d) ==
    [cat |-> "erc1155", hash |-> h, timeStamp |-> ts, from |-> f, to |-> t,
     tokenValue |-> tv, tokenDecimal |-> d]

\* the address the request is about (AnalysisParams.Address)
QueryAddress == Address("a", FALSE)

OneEther == Dec(1, 18)

\* the i-th record of the feed the upstream serves for category c in the
\* fetch models: odd positions leave the queried address, even ones reach it;
\* the other endpoint is b for normal and erc20 records, c for the rest
FeedTx(c, i) ==
    LET h == <<c, i>>
        other == IF c \in {"normal", "erc20"} THEN Address("b", FALSE)
                 ELSE Address("c", FALSE)
        f == IF i % 2 = 1 THEN QueryAddress ELSE other
        t == IF i % 2 = 1 THEN other ELSE QueryAddress
    IN  CASE c = "normal"   -> NormalTx(h, i, f, t, OneEther, 0)
          [] c = "internal" -> InternalTx(h, i, f, t, OneEther, 0)
          [] c = "erc20"    -> ERC20Transfer(h, i, f, t, Dec(500, 0), 2)
          [] c = "erc721"   -> ERC721Transfer(h, i, f, t, 0)
          [] c = "erc1155"  -> ERC1155Transfer(h, i, f, t, Dec(3, 0), 0)

Feed(c, n) == [i \in 1..n |-> FeedTx(c, i)]

\* what one Client.Get* call returns: (*result, nil) or (nil, err)
OkResponse(txs) == [txs |-> Slice(txs), err |-> NilError]

ErrResponse(c) == [txs |-> NilSlice, err |-> RequestError(c)]

\* the answers of the five calls of one request: the categories in failing
\* fail, the others return their feed's first n records
Upstream(failing, n) ==
    [c \in Categories |-> IF c \in failing THEN ErrResponse(c) ELSE OkResponse(Feed(c, n))]

Failed(c) == ~upstream[c].err.isNil

FailedCategories == {c \in Categories : Failed(c)}

\* no Get* method called yet
NoCalls == [c \in Categories |-> 0]

-----------------------------------------------------------------------------
(* FetchAllTransactions and executeTask                                    *)

\* result := TransactionCollection{Errors: []error{}}
EmptyCollection == [slots |-> [c \in Categories |-> NilSlice], Errors |-> <<>>]

\* fmt.Errorf("%s: %w", task.Name, err)
WrapError(c, err) == [isNil |-> FALSE, name |-> TaskName(c), cause |-> err]

\* the error list overwritten where the code appends to it
RecordErrorOverwriting(res, c, err) == [res EXCEPT !.Errors = <<WrapError(c, err)>>]

\* result.Errors = append(result.Errors, fmt.Errorf(...))
RecordError(res, c, err) == [res EXCEPT !.Errors = Append(@, WrapError(c, err))]

\* the slot chosen by the order of completion where the code names the field
AssignerByCompletion(res, c, txs) ==
    LET k == Cardinality({d \in Categories : ~res.slots[d].isNil}) + Len(res.Errors) + 1
    IN  [res EXCEPT !.slots[CategoryOrder[k]] = txs]

\* task.Assigner(result, txs): collection.<category>Txs = txs
Assigner(res, c, txs) == [res EXCEPT !.slots[c] = txs]

\* a success that replaces the collection instead of setting one field of it
UpdateResultReplacing(res, c, txs, err) ==
    IF ~err.isNil THEN RecordError(res, c, err) ELSE Assigner(EmptyCollection, c, txs)

\* the critical section of executeTask
UpdateResult(res, c, txs, err) ==
    IF ~err.isNil THEN RecordError(res, c, err) ELSE Assigner(res, c, txs)

\* a join that gives up at the first recorded failure
WaitReturnsOnFirstError == wg = 0 \/ Len(result.Errors) > 0

\* wg.Wait() returns when the counter is zero
WaitReturns == wg = 0

\* fmt.Errorf("failed to fetch some transactions: %v", result.Errors)
AggregateError(errs) ==
    [isNil |-> FALSE, msg |-> "failed to fetch some transactions", errors |-> errs]

\* a failed fetch returning an empty collection with the error
FetchReturnDroppingData(res) ==
    IF Len(res.Errors) > 0
    THEN [collection |-> EmptyCollection, err |-> AggregateError(res.Errors)]
    ELSE [collection |-> res, err |-> NilError]

\* the (TransactionCollection, error) FetchAllTransactions returns
FetchReturn(res) ==
    IF Len(res.Errors) > 0
    THEN [collection |-> res, err |-> AggregateError(res.Errors)]
    ELSE [collection |-> res, err |-> NilError]

NotReturned == [pending |-> TRUE]

FetchInit ==
    /\ \E failing \in SUBSET Categories, n \in 0..MaxFeedLen :
           upstream = Upstream(failing, n)
    /\ calls = NoCalls
    /\ mainPc = "launch"
    /\ launchIdx = 1
    /\ taskPc = [c \in Categories |-> "idle"]
    /\ taskTxs = [c \in Categories |-> NilSlice]
    /\ taskErr = [c \in Categories |-> NilError]
    /\ mu = "free"
    /\ wg = 0
    /\ result = EmptyCollection
    /\ fetchRet = NotReturned

\* for _, task := range fetchTasks { wg.Add(1); go executeTask(...) }
Launch ==
    /\ mainPc = "launch"
    /\ launchIdx <= Len(CategoryOrder)
    /\ wg' = wg + 1
    /\ taskPc' = [taskPc EXCEPT ![CategoryOrder[launchIdx]] = "fetch"]
    /\ launchIdx' = launchIdx + 1
    /\ UNCHANGED <<upstream, calls, mainPc, taskTxs, taskErr, mu, result, fetchRet>>

\* the range loop ends; main reaches wg.Wait()
LaunchDone ==
    /\ mainPc = "launch"
    /\ launchIdx > Len(CategoryOrder)
    /\ mainPc' = "wait"
    /\ UNCHANGED <<upstream, calls, launchIdx, taskPc, taskTxs, taskErr, mu, wg, result,
                   fetchRet>>

\* the mutex taken before the fetch and held across it
TaskFetchUnderLock(c) ==
    /\ taskPc[c] = "fetch"
    /\ mu = "free"
    /\ mu' = c
    /\ taskTxs' = [taskTxs EXCEPT ![c] = upstream[c].txs]
    /\ taskErr' = [taskErr EXCEPT ![c] = upstream[c].err]
    /\ taskPc' = [taskPc EXCEPT ![c] = "crit"]
    /\ calls' = [calls EXCEPT ![c] = @ + 1]
    /\ UNCHANGED <<upstream, mainPc, launchIdx, wg, result, fetchRet>>

\* txs, err := task.Fetcher(params)
TaskFetch(c) ==
    /\ taskPc[c] = "fetch"
    /\ taskTxs' = [taskTxs EXCEPT ![c] = upstream[c].txs]
    /\ taskErr' = [taskErr EXCEPT ![c] = upstream[c].err]
    /\ taskPc' = [taskPc EXCEPT ![c] = "lock"]
    /\ calls' = [calls EXCEPT ![c] = @ + 1]
    /\ UNCHANGED <<upstream, mainPc, launchIdx, mu, wg, result, fetchRet>>

\* a lock that does not wait for the mutex to be free
TaskLockUnguarded(c) ==
    /\ taskPc[c] = "lock"
    /\ mu' = c
    /\ taskPc' = [taskPc EXCEPT ![c] = "crit"]
    /\ UNCHANGED <<upstream, calls, mainPc, launchIdx, taskTxs, taskErr, wg, result,
                   fetchRet>>

\* mu.Lock()
TaskLock(c) ==
    /\ taskPc[c] = "lock"
    /\ mu = "free"
    /\ mu' = c
    /\ taskPc' = [taskPc EXCEPT ![c] = "crit"]
    /\ UNCHANGED <<upstream, calls, mainPc, launchIdx, taskTxs, taskErr, wg, result,
                   fetchRet>>

\* if err != nil { append; return }; task.Assigner(result, txs)
TaskUpdate(c) ==
    /\ taskPc[c] = "crit"
    /\ result' = UpdateResult(result, c, taskTxs[c], taskErr[c])
    /\ taskPc' = [taskPc EXCEPT ![c] = "unlock"]
    /\ UNCHANGED <<upstream, calls, mainPc, launchIdx, taskTxs, taskErr, mu, wg, fetchRet>>

\* an Unlock that the early return of the error path skips
TaskUnlockOnSuccessOnly(c) ==
    /\ taskPc[c] = "unlock"
    /\ mu' = IF taskErr[c].isNil THEN "free" ELSE mu
    /\ taskPc' = [taskPc EXCEPT ![c] = "wgdone"]
    /\ UNCHANGED <<upstream, calls, mainPc, launchIdx, taskTxs, taskErr, wg, result,
                   fetchRet>>

\* defer mu.Unlock()
TaskUnlock(c) ==
    /\ taskPc[c] = "unlock"
    /\ mu' = "free"
    /\ taskPc' = [taskPc EXCEPT ![c] = "wgdone"]
    /\ UNCHANGED <<upstream, calls, mainPc, launchIdx, taskTxs, taskErr, wg, result,
                   fetchRet>>

\* defer wg.Done()
TaskDone(c) ==
    /\ taskPc[c] = "wgdone"
    /\ wg' = wg - 1
    /\ taskPc' = [taskPc EXCEPT ![c] = "done"]
    /\ UNCHANGED <<upstream, calls, mainPc, launchIdx, taskTxs, taskErr, mu, result,
                   fetchRet>>

\* wg.Wait(); if len(result.Errors) > 0 { return result, err }; return result, nil
Return ==
    /\ mainPc = "wait"
    /\ WaitReturns
    /\ fetchRet' = FetchReturn(result)
    /\ mainPc' = "returned"
    /\ UNCHANGED <<upstream, calls, launchIdx, taskPc, taskTxs, taskErr, mu, wg, result>>

FetchNext ==
    \/ Launch
    \/ LaunchDone
    \/ \E c \in Categories : TaskFetch(c)
    \/ \E c \in Categories : TaskLock(c)
    \/ \E c \in Categories : TaskUpdate(c)
    \/ \E c \in Categories : TaskUnlock(c)
    \/ \E c \in Categories : TaskDone(c)
    \/ Return

-----------------------------------------------------------------------------
(* ProcessTransactions                                                     *)

\* make(map[string]*models.EntityWithTransactions)
EmptyMap == [k \in {} |-> k]

\* if tx.IsError == 1 { continue }
IsFailed(tx) == tx.isError = 1

\* either endpoint accepted where the code tests the one of the direction
MatchesEitherEndpoint(tx, address, outgoing) ==
    EqualFold(tx.from, address) \/ EqualFold(tx.to, address)

\* if isOutgoing { strings.EqualFold(tx.From, address) } else { strings.EqualFold(tx.To, address) }
MatchesDirection(tx, address, outgoing) ==
    IF outgoing THEN EqualFold(tx.from, address) ELSE EqualFold(tx.to, address)

\* counterpartyAddress = tx.To (outgoing) or tx.From (incoming)
CounterpartyAddress(tx, outgoing) == IF outgoing THEN tx.to ELSE tx.from

\* models.Transaction{TxAmount, DateTime, TransactionID}
Transaction(amount, tx) ==
    [TxAmount |-> amount, DateTime |-> FormatTimestamp(tx.timeStamp),
     TransactionID |-> tx.hash]

\* if _, exists := entityMap[key]; !exists { entityMap[key] = &Entity{key, 0, []} }
EnsureEntity(m, key) ==
    IF key \in DOMAIN m THEN m
    ELSE m @@ (key :> [Address |-> key, Amount |-> DecZero, Transactions |-> <<>>])

\* the new entry put in front of the history where the code appends it
AddToEntityPrepending(m, key, amount, transaction) ==
    [EnsureEntity(m, key) EXCEPT ![key].Amount = DecAdd(@, amount),
                                 ![key].Transactions = <<transaction>> \o @]

\* entityMap[key].Amount += amount; Transactions = append(Transactions, transaction)
AddToEntity(m, key, amount, transaction) ==
    [EnsureEntity(m, key) EXCEPT ![key].Amount = DecAdd(@, amount),
                                 ![key].Transactions = Append(@, transaction)]

\* the entry appended a second time
AppendToEntityTwice(m, key, transaction) ==
    [EnsureEntity(m, key) EXCEPT ![key].Transactions = Append(Append(@, transaction),
                                                              transaction)]

\* entityMap[key].Transactions = append(Transactions, transaction)
AppendToEntity(m, key, transaction) ==
    [EnsureEntity(m, key) EXCEPT ![key].Transactions = Append(@, transaction)]

\* the body of the loop over txCollection.NormalTxs
ProcessNormalTx(m, tx, address, outgoing) ==
    IF IsFailed(tx) THEN m
    ELSE IF ~MatchesDirection(tx, address, outgoing) THEN m
    ELSE LET amount == ConvertWeiToEther(BigIntString(tx.value))
         IN  AddToEntity(m, CounterpartyAddress(tx, outgoing), amount,
                         Transaction(amount, tx))

\* the body of the loop over txCollection.InternalTxs
ProcessInternalTx(m, tx, address, outgoing) ==
    IF IsFailed(tx) THEN m
    ELSE IF ~MatchesDirection(tx, address, outgoing) THEN m
    ELSE LET amount == ConvertWeiToEther(BigIntString(tx.value))
         IN  AddToEntity(m, CounterpartyAddress(tx, outgoing), amount,
                         Transaction(amount, tx))

\* the ERC20 loop adding its amount to the total like the native loop
ProcessERC20TxAddingTotal(m, tx, address, outgoing) ==
    IF ~MatchesDirection(tx, address, outgoing) THEN m
    ELSE LET amount == ConvertTokenValueWithDecimals(BigIntString(tx.value),
                                                     tx.tokenDecimal)
         IN  AddToEntity(m, CounterpartyAddress(tx, outgoing), amount,
                         Transaction(amount, tx))

\* the body of the loop over txCollection.ERC20Txs
ProcessERC20Tx(m, tx, address, outgoing) ==
    IF ~MatchesDirection(tx, address, outgoing) THEN m
    ELSE LET amount == ConvertTokenValueWithDecimals(BigIntString(tx.value),
                                                     tx.tokenDecimal)
         IN  AppendToEntity(m, CounterpartyAddress(tx, outgoing),
                            Transaction(amount, tx))

\* the ERC721 loop scaling one unit by the token's decimals like the ERC20 loop
ProcessERC721TxScaled(m, tx, address, outgoing) ==
    IF ~MatchesDirection(tx, address, outgoing) THEN m
    ELSE AppendToEntity(m, CounterpartyAddress(tx, outgoing),
                        Transaction(DecQuoPow10(DecOne, tx.tokenDecimal), tx))

\* the body of the loop over txCollection.ERC721Txs
ProcessERC721Tx(m, tx, address, outgoing) ==
    IF ~MatchesDirection(tx, address, outgoing) THEN m
    ELSE AppendToEntity(m, CounterpartyAddress(tx, outgoing), Transaction(DecOne, tx))

\* the body of the loop over txCollection.ERC1155Txs
ProcessERC1155Tx(m, tx, address, outgoing) ==
    IF ~MatchesDirection(tx, address, outgoing) THEN m
    ELSE LET amount == ConvertTokenValueWithDecimals(BigIntString(tx.tokenValue),
                                                     tx.tokenDecimal)
         IN  AppendToEntity(m, CounterpartyAddress(tx, outgoing),
                            Transaction(amount, tx))

ProcessTx(m, tx, address, outgoing) ==
    CASE tx.cat = "normal"   -> ProcessNormalTx(m, tx, address, outgoing)
      [] tx.cat = "internal" -> ProcessInternalTx(m, tx, address, outgoing)
      [] tx.cat = "erc20"    -> ProcessERC20Tx(m, tx, address, outgoing)
      [] tx.cat = "erc721"   -> ProcessERC721Tx(m, tx, address, outgoing)
      [] tx.cat = "erc1155"  -> ProcessERC1155Tx(m, tx, address, outgoing)

\* for _, tx := range txs { ... }
RECURSIVE RangeTxs(_, _, _, _)
RangeTxs(m, txs, address, outgoing) ==
    IF txs = <<>> THEN m
    ELSE RangeTxs(ProcessTx(m, Head(txs), address, outgoing), Tail(txs), address,
                  outgoing)

\* the five loops, in the order of the source
RECURSIVE RangeCategories(_, _, _, _, _)
RangeCategories(m, slots, i, address, outgoing) ==
    IF i > Len(CategoryOrder) THEN m
    ELSE RangeCategories(RangeTxs(m, slots[CategoryOrder[i]].elems, address, outgoing),
                         slots, i + 1, address, outgoing)

ProcessTransactions(address, coll, outgoing) ==
    RangeCategories(EmptyMap, coll.slots, 1, address, outgoing)

-----------------------------------------------------------------------------
(* The inputs of ProcessTransactions                                       *)

\* most records in a collection handed to ProcessTransactions
MaxRecords == 2

HalfEther == Dec(5, 17)

\* (from, to): leaving the queried address, leaving it written in upper case
\* towards the same counterparty in upper case, the two reverse transfers,
\* a transfer between two other spellings, and a transfer to itself
EndpointPairs ==
    { <<Address("a", FALSE), Address("b", FALSE)>>,
      <<Address("a", TRUE),  Address("b", TRUE)>>,
      <<Address("b", FALSE), Address("a", FALSE)>>,
      <<Address("b", TRUE),  Address("a", TRUE)>>,
      <<Address("b", FALSE), Address("b", TRUE)>>,
      <<Address("a", FALSE), Address("a", FALSE)>> }

\* (value, isError) of a native or internal record
ValueAndFlag ==
    { <<OneEther, 0>>, <<HalfEther, 0>>, <<OneEther, 1>>, <<OneEther, 2>>,
      <<NilBigInt, 0>> }

\* the records a feed may hold, before their hash and time stamp
TxShapes ==
    {NormalTx(0, 0, p[1], p[2], v[1], v[2]) : p \in EndpointPairs, v \in ValueAndFlag}
    \cup {InternalTx(0, 0, p[1], p[2], v[1], v[2]) : p \in EndpointPairs, v \in ValueAndFlag}
    \cup {ERC20Transfer(0, 0, p[1], p[2], v, 2) : p \in EndpointPairs,
                                                   v \in {Dec(500, 0), NilBigInt}}
    \cup {ERC721Transfer(0, 0, p[1], p[2], d) : p \in EndpointPairs, d \in {0, 2}}
    \cup {ERC1155Transfer(0, 0, p[1], p[2], Dec(30, 0), 2) : p \in EndpointPairs}

\* the records of category c among shapes, in order, each with the hash and
\* time stamp of its position in the category's feed
CategoryFeed(shapes, c) ==
    LET own == SelectSeq(shapes, LAMBDA r : r.cat = c)
    IN  [i \in 1..Len(own) |-> [own[i] EXCEPT !.hash = <<c, i>>, !.timeStamp = i]]

\* a fetched collection (no fetch failed) holding the records of shapes
CollectionOf(shapes) ==
    [slots |-> [c \in Categories |-> Slice(CategoryFeed(shapes, c))], Errors |-> <<>>]

\* the position of a record's category among the five slots
SlotIndex(r) == CHOOSE i \in 1..Len(CategoryOrder) : CategoryOrder[i] = r.cat

\* up to MaxRecords records, listed slot by slot
ShapeSeqs ==
    {s \in UNION {[1..n -> TxShapes] : n \in 0..MaxRecords} :
        \A i \in 1..(Len(s) - 1) : SlotIndex(s[i]) <= SlotIndex(s[i + 1])}

\* ProcessTransactions as one step
Process ==
    /\ procPc = "start"
    /\ entityMap' = ProcessTransactions(QueryAddress, txCollection, isOutgoing)
    /\ procPc' = "done"
    /\ UNCHANGED <<txCollection, isOutgoing>>

-----------------------------------------------------------------------------
(* AnalysisService.AnalyzeBeneficiaries / AnalyzePayers                    *)

\* the text of fmt.Errorf("failed to get ...: %w", err) for each call
SvcStageName(c) ==
    CASE c = "normal"   -> "normal transactions"
      [] c = "internal" -> "internal transactions"
      [] c = "erc20"    -> "token transfers"
      [] c = "erc721"   -> "token transfers"
      [] c = "erc1155"  -> "token transfers"

\* fmt.Errorf("failed to get %s: %w", ...)
SvcWrapError(c, err) ==
    [isNil |-> FALSE, msg |-> "failed to get", stage |-> SvcStageName(c), cause |-> err]

\* the call's error dropped (txs, _ := ...)
SvcCallFailedIgnored(resp) == FALSE

\* if err != nil
SvcCallFailed(resp) == ~resp.err.isNil

\* for _, ben := range beneficiaryMap { append }: the map's values in any order
MapToSlices(m) ==
    LET n == Cardinality(DOMAIN m)
        orders == {o \in [1..n -> DOMAIN m] : \A i, j \in 1..n : i # j => o[i] # o[j]}
    IN  {Slice([i \in 1..n |-> m[o[i]]]) : o \in orders}

\* one of the five sequential Get* calls and the check of its error
SvcFetch ==
    /\ svcPc = "fetch"
    /\ calls' = [calls EXCEPT ![CategoryOrder[svcIdx]] = @ + 1]
    /\ LET c == CategoryOrder[svcIdx]
           resp == upstream[c]
       IN  IF SvcCallFailed(resp)
           THEN /\ svcRet' = [list |-> NilSlice, err |-> SvcWrapError(c, resp.err)]
                /\ svcPc' = "returned"
                /\ UNCHANGED <<svcIdx, svcTxs>>
           ELSE /\ svcTxs' = [svcTxs EXCEPT ![c] = resp.txs]
                /\ svcIdx' = svcIdx + 1
                /\ svcPc' = IF svcIdx = Len(CategoryOrder) THEN "aggregate" ELSE "fetch"
                /\ UNCHANGED svcRet
    /\ UNCHANGED svcOutgoing

\* the five loops over the fetched records, the map turned into a slice
SvcAggregate ==
    /\ svcPc = "aggregate"
    /\ \E list \in MapToSlices(ProcessTransactions(QueryAddress, [slots |-> svcTxs],
                                                    svcOutgoing)) :
           svcRet' = [list |-> list, err |-> NilError]
    /\ svcPc' = "returned"
    /\ UNCHANGED <<svcOutgoing, svcIdx, svcTxs>>

-----------------------------------------------------------------------------
(* The handlers: parseQueryParams and filterBeneficiaries / filterPayers   *)

\* most counterparties in the list the service hands to the filter
MaxCounterparties == 2

\* Limit: 100, the default and the replacement of a limit of zero or below
DefaultLimit == 100

\* query.Get(name) == "": the parameter is not in the request
Absent == [text |-> ""]

\* the text of an address: what it starts with, how many characters it has
\* and the address its hex digits spell
AddressText(prefix, len, a) ==
    [text |-> "address", prefix |-> prefix, len |-> len, addr |-> a]

\* the decimal text of the number d
NumberText(d) == [text |-> "number", val |-> d]

\* a word w, written in lower or in upper case
WordText(w, u) == [text |-> "word", word |-> w, upper |-> u]

\* the Go string literal "w"
Word(w) == WordText(w, FALSE)

\* strings.ToLower on a word
ToLowerWord(s) == IF s.text = "word" THEN [s EXCEPT !.upper = FALSE] ELSE s

\* strconv.ParseFloat(s, 64)
ParseFloat(s) ==
    IF s.text = "number" THEN [err |-> FALSE, val |-> s.val] ELSE [err |-> TRUE]

\* strconv.Atoi(s): the text of an integer
Atoi(s) ==
    IF s.text = "number" /\ s.val.x >= 0
    THEN [err |-> FALSE, val |-> s.val.m * Pow10(s.val.x)]
    ELSE [err |-> TRUE]

\* strconv.ParseInt(s, 10, 64): the text of an integer
ParseInt(s) == Atoi(s)

\* strconv.ParseBool(s)
ParseBool(s) ==
    IF s \in {Word("true"), WordText("true", TRUE)} THEN [err |-> FALSE, val |-> TRUE]
    ELSE IF s \in {Word("false"), WordText("false", TRUE)} THEN [err |-> FALSE, val |-> FALSE]
    ELSE [err |-> TRUE]

\* Page: 1, the default and the replacement of a page of zero or below
DefaultPage == 1

\* Offset: 100, the default and the replacement of an offset of zero or below
DefaultOffset == 100

\* the FilterAndSortParams parseQueryParams starts from, before the address
DefaultParams ==
    [Address |-> Absent, StartBlock |-> 0, EndBlock |-> -1, Page |-> DefaultPage,
     Offset |-> DefaultOffset,
     MinAmount |-> DecZero, MaxAmount |-> Dec(-1, 0), SortBy |-> Word("amount"),
     Sort |-> Word("desc"), Limit |-> DefaultLimit, WithZeroTxs |-> TRUE]

Parsed(p) == [err |-> FALSE, params |-> p]

ParseFailed(p) == [err |-> TRUE, params |-> p]

\* Address: query.Get("address")
ParseAddress(p, q) == Parsed([p EXCEPT !.Address = q.address])

\* if startBlockStr := query.Get("sblock"); startBlockStr != "" { ... }
ParseStartBlock(p, q) ==
    IF q.sblock = Absent THEN Parsed(p)
    ELSE LET r == ParseInt(q.sblock)
         IN  IF r.err THEN ParseFailed(p) ELSE Parsed([p EXCEPT !.StartBlock = r.val])

\* if endBlockStr := query.Get("eblock"); endBlockStr != "" { ... }
ParseEndBlock(p, q) ==
    IF q.eblock = Absent THEN Parsed(p)
    ELSE LET r == ParseInt(q.eblock)
         IN  IF r.err THEN ParseFailed(p) ELSE Parsed([p EXCEPT !.EndBlock = r.val])

\* if pageStr := query.Get("page"); pageStr != "" { ...; if page <= 0 { page = 1 } }
ParsePage(p, q) ==
    IF q.page = Absent THEN Parsed(p)
    ELSE LET r == Atoi(q.page)
         IN  IF r.err THEN ParseFailed(p)
             ELSE Parsed([p EXCEPT !.Page = IF r.val <= 0 THEN DefaultPage ELSE r.val])

\* if offsetStr := query.Get("offset"); offsetStr != "" { ...; if offset <= 0 { offset = 100 } }
ParseOffset(p, q) ==
    IF q.offset = Absent THEN Parsed(p)
    ELSE LET r == Atoi(q.offset)
         IN  IF r.err THEN ParseFailed(p)
             ELSE Parsed([p EXCEPT !.Offset = IF r.val <= 0 THEN DefaultOffset ELSE r.val])

\* if minAmtStr := query.Get("min"); minAmtStr != "" { ... }
ParseMin(p, q) ==
    IF q.min = Absent THEN Parsed(p)
    ELSE LET r == ParseFloat(q.min)
         IN  IF r.err THEN ParseFailed(p) ELSE Parsed([p EXCEPT !.MinAmount = r.val])

\* if maxAmtStr := query.Get("max"); maxAmtStr != "" { ... }
ParseMax(p, q) ==
    IF q.max = Absent THEN Parsed(p)
    ELSE LET r == ParseFloat(q.max)
         IN  IF r.err THEN ParseFailed(p) ELSE Parsed([p EXCEPT !.MaxAmount = r.val])

\* if sortBy := query.Get("sort_by"); sortBy != "" { params.SortBy = sortBy }
ParseSortBy(p, q) ==
    IF q.sort_by = Absent THEN Parsed(p) ELSE Parsed([p EXCEPT !.SortBy = q.sort_by])

\* the sort order of the request kept whatever it says
ParseSortUnchecked(p, q) ==
    IF q.sort = Absent THEN Parsed(p) ELSE Parsed([p EXCEPT !.Sort = ToLowerWord(q.sort)])

\* switch strings.ToLower(sortOrder) { case "asc", "desc": ...; default: "desc" }
ParseSort(p, q) ==
    IF q.sort = Absent THEN Parsed(p)
    ELSE IF ToLowerWord(q.sort) \in {Word("asc"), Word("desc")}
         THEN Parsed([p EXCEPT !.Sort = ToLowerWord(q.sort)])
         ELSE Parsed([p EXCEPT !.Sort = Word("desc")])

\* if limitStr := query.Get("limit"); limitStr != "" { ...; if limit <= 0 { limit = 100 } }
ParseLimit(p, q) ==
    IF q.limit = Absent THEN Parsed(p)
    ELSE LET r == Atoi(q.limit)
         IN  IF r.err THEN ParseFailed(p)
             ELSE Parsed([p EXCEPT !.Limit = IF r.val <= 0 THEN DefaultLimit ELSE r.val])

\* if withZeroTxsStr := query.Get("with_zero_txs"); withZeroTxsStr != "" { ... }
ParseWithZeroTxs(p, q) ==
    IF q.with_zero_txs = Absent THEN Parsed(p)
    ELSE LET r == ParseBool(q.with_zero_txs)
         IN  IF r.err THEN ParseFailed(p) ELSE Parsed([p EXCEPT !.WithZeroTxs = r.val])

\* parseQueryParams: the filter and sort parameters, in the order of the
\* source, returning at the first parameter that does not parse
ParseQueryParams(q) ==
    LET r0 == ParseAddress(DefaultParams, q) IN
    LET r1 == ParseMin(r0.params, q) IN
    IF r1.err THEN r1 ELSE
    LET r2 == ParseMax(r1.params, q) IN
    IF r2.err THEN r2 ELSE
    LET b1 == ParseStartBlock(r2.params, q) IN
    IF b1.err THEN b1 ELSE
    LET b2 == ParseEndBlock(b1.params, q) IN
    IF b2.err THEN b2 ELSE
    LET b3 == ParsePage(b2.params, q) IN
    IF b3.err THEN b3 ELSE
    LET b4 == ParseOffset(b3.params, q) IN
    IF b4.err THEN b4 ELSE
    LET r3 == ParseSortBy(b4.params, q) IN
    LET r4 == ParseSort(r3.params, q) IN
    LET r5 == ParseLimit(r4.params, q) IN
    IF r5.err THEN r5 ELSE ParseWithZeroTxs(r5.params, q)

\* float64 <
DecLess(a, b) ==
    LET x == IF a.x < b.x THEN a.x ELSE b.x
    IN  a.m * Pow10(a.x - x) < b.m * Pow10(b.x - x)

\* zero totals let through whatever the request says
SkipZeroIgnored(ben, p) == FALSE

\* if ben.Amount == 0 && !params.WithZeroTxs { continue }
SkipZero(ben, p) == ben.Amount = DecZero /\ ~p.WithZeroTxs

\* if ben.Amount < params.MinAmount { continue }
BelowMin(ben, p) == DecLess(ben.Amount, p.MinAmount)

\* if params.MaxAmount > 0 && ben.Amount > params.MaxAmount { continue }
AboveMax(ben, p) == DecLess(DecZero, p.MaxAmount) /\ DecLess(p.MaxAmount, ben.Amount)

\* the entry appended twice
KeepTwice(filtered, ben) == Append(Append(filtered, ben), ben)

\* filtered = append(filtered, ben)
Keep(filtered, ben) == Append(filtered, ben)

\* for _, ben := range beneficiaries { ... }
RECURSIVE FilterLoop(_, _, _)
FilterLoop(filtered, bens, p) ==
    IF bens = <<>> THEN filtered
    ELSE LET ben == Head(bens)
         IN  FilterLoop(IF SkipZero(ben, p) \/ BelowMin(ben, p) \/ AboveMax(ben, p)
                        THEN filtered ELSE Keep(filtered, ben),
                        Tail(bens), p)

\* the less function handed to sort.Slice
Less(p, a, b) ==
    IF p.Sort = Word("asc") THEN DecLess(a.Amount, b.Amount)
    ELSE DecLess(b.Amount, a.Amount)

\* the rearrangements of a list
PermsOf(list) ==
    LET n == Len(list)
        orders == {o \in [1..n -> 1..n] : \A i, j \in 1..n : i # j => o[i] # o[j]}
    IN  {[i \in 1..n |-> list[o[i]]] : o \in orders}

\* sort.Slice(filtered, less): a rearrangement in which no entry is less
\* than an earlier one; sort.Slice does not promise to keep the order of
\* entries neither of which is less than the other
SortSlice(list, p) ==
    {s \in PermsOf(list) :
        \A i, j \in 1..Len(s) : i < j => ~Less(p, s[j], s[i])}

\* if params.SortBy == "amount" { sort.Slice(...) }
ApplySorting(list, p) == IF p.SortBy = Word("amount") THEN SortSlice(list, p) ELSE {list}

\* the list returned whole
ApplyLimitOff(list, p) == list

\* if len(filtered) > params.Limit { filtered = filtered[:params.Limit] }
ApplyLimit(list, p) == IF Len(list) > p.Limit THEN SubSeq(list, 1, p.Limit) ELSE list

\* filterBeneficiaries / filterPayers: the lists the call may return
FilterBeneficiaries(bens, p) ==
    {ApplyLimit(s, p) : s \in ApplySorting(FilterLoop(<<>>, bens, p), p)}

\* the queried address as the request writes it: 0x and forty hex digits
QueryAddressText == AddressText("0x", 42, QueryAddress)

\* the requests: each parameter absent or one of a few texts
Queries ==
    [address : {QueryAddressText},
     sblock : {Absent},
     eblock : {Absent},
     page : {Absent},
     offset : {Absent},
     min : {Absent, NumberText(Dec(1, 0))},
     max : {Absent, NumberText(Dec(0, 0)), NumberText(Dec(1, 0))},
     sort_by : {Absent, Word("address")},
     sort : {Absent, WordText("asc", TRUE), Word("sideways")},
     limit : {Absent, NumberText(Dec(0, 0)), NumberText(Dec(1, 0)), Word("many")},
     with_zero_txs : {Absent, Word("false")}]

EmptyQuery ==
    [address |-> Absent, sblock |-> Absent, eblock |-> Absent, page |-> Absent,
     offset |-> Absent, min |-> Absent, max |-> Absent, sort_by |-> Absent, sort |-> Absent,
     limit |-> Absent, with_zero_txs |-> Absent]

\* the addresses of the counterparties of the queried address
CounterpartyHex == <<"b", "c", "d", "e">>

\* what the queried address sent a counterparty: nothing, one token, one
\* ether or five ether
Sendings == {"nothing", "token", "one", "five"}

\* the record of what counterparty i was sent
SentRecord(i, sent) ==
    LET cp == Address(CounterpartyHex[i], FALSE)
    IN  CASE sent = "token" -> ERC721Transfer(0, 0, QueryAddress, cp, 0)
          [] sent = "one"   -> NormalTx(0, 0, QueryAddress, cp, OneEther, 0)
          [] sent = "five"  -> NormalTx(0, 0, QueryAddress, cp, Dec(5, 18), 0)

\* the records sent to counterparties i .. MaxCounterparties
RECURSIVE SentRecords(_, _)
SentRecords(sendings, i) ==
    IF i > MaxCounterparties THEN <<>>
    ELSE IF sendings[i] = "nothing" THEN SentRecords(sendings, i + 1)
    ELSE <<SentRecord(i, sendings[i])>> \o SentRecords(sendings, i + 1)

\* the lists AnalyzeBeneficiaries can return: the buckets of the records
\* sent, in any order of the map's iteration
AggregateLists ==
    UNION {{l.elems : l \in MapToSlices(
                ProcessTransactions(QueryAddress, CollectionOf(SentRecords(sendings, 1)),
                                    TRUE))}
           : sendings \in [1..MaxCounterparties -> Sendings]}

\* params, err := parseQueryParams(r); if err != nil { http.Error(400); return }
ParseRequest ==
    /\ filterPc = "parse"
    /\ LET r == ParseQueryParams(query)
       IN  /\ params' = r.params
           /\ filterPc' = IF r.err THEN "rejected" ELSE "filter"
    /\ UNCHANGED <<query, aggregates, filteredBeneficiaries>>

\* filteredBeneficiaries := filterBeneficiaries(beneficiaries, params)
FilterResponse ==
    /\ filterPc = "filter"
    /\ filteredBeneficiaries' \in FilterBeneficiaries(aggregates, params)
    /\ filterPc' = "done"
    /\ UNCHANGED <<query, aggregates, params>>

-----------------------------------------------------------------------------
(* The Etherscan clients: Client of internal/client, which the services    *)
(* call, and Client of internal/etherscan, which NewHandler constructs     *)

\* endBlock = 99999999
DefaultEndBlock == 99999999

\* a parameter left out of the endpoint
Omitted == [omitted |-> TRUE]

\* no request made yet
NoRequest == [none |-> TRUE]

\* the action in the endpoint of each Get* method of internal/etherscan
EtherscanActionOf(c) ==
    CASE c = "normal"   -> "txlist"
      [] c = "internal" -> "txlistinternal"
      [] c = "erc20"    -> "tokentx"
      [] c = "erc721"   -> "tokennfttx"
      [] c = "erc1155"  -> "tokentx"

\* Client.buildEndpoint of internal/client
BuildEndpoint(action, p) ==
    [action |-> action,
     address |-> p.Address,
     startblock |-> IF p.StartBlock < 0 THEN 0 ELSE p.StartBlock,
     endblock |-> IF p.EndBlock < 0 THEN DefaultEndBlock ELSE p.EndBlock,
     page |-> IF p.Page > 0 THEN p.Page ELSE Omitted,
     offset |-> IF p.Offset > 0 THEN p.Offset ELSE Omitted,
     sort |-> IF p.Sort = Absent THEN Word("asc") ELSE p.Sort]

\* the endpoint the Get* methods of internal/etherscan format
FormatEndpoint(action, address) ==
    [action |-> action, address |-> address, startblock |-> 0,
     endblock |-> DefaultEndBlock, page |-> Omitted, offset |-> Omitted,
     sort |-> Word("asc")]

\* the endpoint Client.Get<category> requests
EndpointOf(pkg, c, p) ==
    IF pkg = "internal/client" THEN BuildEndpoint(ActionOf(c), p)
    ELSE FormatEndpoint(EtherscanActionOf(c), p.Address)

ClientPkgs == {"internal/client", "internal/etherscan"}

\* the request parameters the handlers hand to the service
RequestParams ==
    [Address : {QueryAddress, Address("a", TRUE)},
     StartBlock : {0},
     EndBlock : {-1, 5},
     Page : {1, 2},
     Offset : {100},
     Sort : {Word("asc"), Word("desc")}]

\* one of the five Get* calls: endpoint := ...; c.makeRequest(endpoint, &response)
GetTransactions(c) ==
    /\ issued[c] = NoRequest
    /\ issued' = [issued EXCEPT ![c] = EndpointOf(clientPkg, c, reqParams)]
    /\ calls' = [calls EXCEPT ![c] = @ + 1]
    /\ UNCHANGED <<clientPkg, reqParams>>

-----------------------------------------------------------------------------
(* BeneficiaryHandler / PayerHandler from the request to the response      *)

\* an address accepted whatever its length
ValidateAddressPrefixOnly(address) ==
    IF address.prefix \notin {"0x", "0X"} THEN [err |-> TRUE] ELSE [err |-> FALSE]

\* validateAddress: address = strings.ToLower(address);
\* if !strings.HasPrefix(address, "0x") || len(address) != 42 { error }
ValidateAddress(address) ==
    IF address.prefix \notin {"0x", "0X"} \/ address.len # 42
    THEN [err |-> TRUE] ELSE [err |-> FALSE]

\* the requests to a handler: the address missing, well formed in lower and
\* in upper case, without its prefix and one character short; pages, offsets
\* and blocks absent, zero or below, positive and not numbers; one amount and
\* one limit that do not parse
HandlerQueries ==
    [address : {Absent, QueryAddressText, AddressText("0X", 42, Address("a", TRUE)),
                AddressText("", 40, QueryAddress), AddressText("0x", 41, QueryAddress)},
     sblock : {Absent, Word("genesis")},
     eblock : {Absent, NumberText(Dec(5, 0))},
     page : {Absent, NumberText(Dec(0, 0)), NumberText(Dec(-1, 0)), NumberText(Dec(2, 0)),
             Word("first")},
     offset : {Absent, NumberText(Dec(0, 0)), NumberText(Dec(25, 0)), Word("all")},
     min : {Absent, Word("lots")},
     max : {Absent},
     sort_by : {Absent},
     sort : {Absent, Word("asc"), WordText("asc", TRUE), Word("sideways")},
     limit : {Absent, NumberText(Dec(15, -1))},
     with_zero_txs : {Absent}]

\* params, err := parseQueryParams(r); if err != nil { http.Error(400); return }
HandlerParse ==
    /\ filterPc = "parse"
    /\ LET r == ParseQueryParams(query)
       IN  /\ params' = r.params
           /\ filterPc' = IF r.err THEN "rejected" ELSE "validate"
    /\ UNCHANGED <<query, aggregates, filteredBeneficiaries>>

\* if params.Address == "" { 400 }; if err := validateAddress(params.Address); err != nil
\* { 400 }; analysisParams := service.AnalysisParams{...}; the service's
\* requestParams := client.EtherscanRequestParams{...}
HandlerValidate ==
    /\ filterPc = "validate"
    /\ IF params.Address = Absent \/ ValidateAddress(params.Address).err
       THEN /\ filterPc' = "rejected"
            /\ UNCHANGED reqParams
       ELSE /\ filterPc' = "analyze"
            /\ reqParams' = [Address |-> params.Address, StartBlock |-> params.StartBlock,
                             EndBlock |-> params.EndBlock, Page |-> params.Page,
                             Offset |-> params.Offset, Sort |-> params.Sort]
    /\ UNCHANGED <<query, aggregates, params, filteredBeneficiaries, clientPkg, issued>>

\* one of the service's Get* calls and the endpoint the Client requests for it
HandlerFetch ==
    /\ filterPc = "analyze"
    /\ SvcFetch
    /\ issued' = [issued EXCEPT ![CategoryOrder[svcIdx]] =
                      EndpointOf(clientPkg, CategoryOrder[svcIdx], reqParams)]
    /\ UNCHANGED <<clientPkg, reqParams>>

\* the service's loops over the fetched records
HandlerAggregate ==
    /\ filterPc = "analyze"
    /\ SvcAggregate

\* beneficiaries, err := h.analysisService.AnalyzeBeneficiaries(analysisParams);
\* if err != nil { http.Error(500); return }
HandlerAnalyzed ==
    /\ filterPc = "analyze"
    /\ svcPc = "returned"
    /\ IF ~svcRet.err.isNil
       THEN /\ filterPc' = "failed"
            /\ UNCHANGED aggregates
       ELSE /\ filterPc' = "filter"
            /\ aggregates' = svcRet.list.elems
    /\ UNCHANGED <<query, params, filteredBeneficiaries>>

-----------------------------------------------------------------------------
(* Calls of the conversions of internal/utils                              *)

\* most digits in a value text
MaxDigits == 2

\* the base-10 integer texts: an optional sign and 1 to MaxDigits digits
IntegerTexts ==
    {Literal(sg \o ds) :
        sg \in {<<>>, <<"-">>, <<"+">>},
        ds \in UNION {[1..k -> {DigitChars[i] : i \in 1..Len(DigitChars)}]
                          : k \in 1..MaxDigits}}

\* tokenDecimal uint8: no decimals, one, two, USDC's six, ether's eighteen
TokenDecimals == {0, 1, 2, 6, 18}

\* amount := utils.ConvertWeiToEther(tx.Value.String())
CallConvertWeiToEther ==
    /\ convCall = "none"
    /\ convAmount' = ConvertWeiToEther(convValue)
    /\ convCall' = "ConvertWeiToEther"
    /\ UNCHANGED <<convValue, convDecimal>>

\* amount := utils.ConvertTokenValueWithDecimals(tx.Value.String(), tx.TokenDecimal)
CallConvertTokenValueWithDecimals ==
    /\ convCall = "none"
    /\ convAmount' = ConvertTokenValueWithDecimals(convValue, convDecimal)
    /\ convCall' = "ConvertTokenValueWithDecimals"
    /\ UNCHANGED <<convValue, convDecimal>>

-----------------------------------------------------------------------------
(* Specifications                                                          *)

FetchIdle ==
    /\ mainPc = "launch"
    /\ launchIdx = 1
    /\ taskPc = [c \in Categories |-> "idle"]
    /\ taskTxs = [c \in Categories |-> NilSlice]
    /\ taskErr = [c \in Categories |-> NilError]
    /\ mu = "free"
    /\ wg = 0
    /\ result = EmptyCollection
    /\ fetchRet = NotReturned

SvcIdle ==
    /\ svcOutgoing = TRUE
    /\ svcPc = "fetch"
    /\ svcIdx = 1
    /\ svcTxs = [c \in Categories |-> NilSlice]
    /\ svcRet = NotReturned

ProcIdle ==
    /\ txCollection = EmptyCollection
    /\ isOutgoing = TRUE
    /\ procPc = "start"
    /\ entityMap = EmptyMap

FilterIdle ==
    /\ query = EmptyQuery
    /\ aggregates = <<>>
    /\ params = DefaultParams
    /\ filterPc = "parse"
    /\ filteredBeneficiaries = NotReturned

ClientIdle ==
    /\ clientPkg = "internal/client"
    /\ reqParams = [Address |-> QueryAddress, StartBlock |-> 0, EndBlock |-> -1,
                    Page |-> 1, Offset |-> 100, Sort |-> Word("desc")]
    /\ issued = [c \in Categories |-> NoRequest]

ConvIdle ==
    /\ convValue = [text |-> ""]
    /\ convDecimal = 0
    /\ convCall = "none"
    /\ convAmount = DecZero

\* one call of FetchAllTransactions
Init == FetchInit /\ SvcIdle /\ ProcIdle /\ FilterIdle /\ ClientIdle /\ ConvIdle

Next == FetchNext /\ UNCHANGED <<svcVars, procVars, filterVars, clientVars, convVars>>

Spec == Init /\ [][Next]_vars

\* the Go scheduler runs every goroutine that stays runnable and every
\* upstream call returns, so while some goroutine of FetchAllTransactions
\* can take a step, one of them eventually does
Fairness == WF_vars(Next)

\* one call of FetchAllTransactions with every feed at its full length
InitFair ==
    /\ \E failing \in SUBSET Categories : upstream = Upstream(failing, MaxFeedLen)
    /\ Init

\* one call of FetchAllTransactions under a fair scheduler
SpecFair == InitFair /\ [][Next]_vars /\ Fairness

\* one call of a conversion of internal/utils on a base-10 integer text
InitConversions ==
    /\ convValue \in IntegerTexts
    /\ convDecimal \in TokenDecimals
    /\ convCall = "none"
    /\ convAmount = DecZero
    /\ upstream = Upstream({}, 0)
    /\ calls = NoCalls
    /\ FetchIdle
    /\ SvcIdle
    /\ ProcIdle
    /\ FilterIdle
    /\ ClientIdle

NextConversions ==
    (CallConvertWeiToEther \/ CallConvertTokenValueWithDecimals)
        /\ UNCHANGED <<upstream, calls, fetchVars, svcVars, procVars, filterVars, clientVars>>

SpecConversions == InitConversions /\ [][NextConversions]_vars

\* one request to BeneficiaryHandler (outgoing) or PayerHandler (incoming)
InitHandler ==
    /\ query \in HandlerQueries
    /\ \E failing \in {{}, {"erc20"}} : upstream = Upstream(failing, MaxFeedLen)
    /\ svcOutgoing \in BOOLEAN
    /\ svcPc = "fetch"
    /\ svcIdx = 1
    /\ svcTxs = [c \in Categories |-> NilSlice]
    /\ svcRet = NotReturned
    /\ aggregates = <<>>
    /\ params = DefaultParams
    /\ filterPc = "parse"
    /\ filteredBeneficiaries = NotReturned
    /\ calls = NoCalls
    /\ FetchIdle
    /\ ProcIdle
    /\ ClientIdle
    /\ ConvIdle

NextHandler ==
    \/ HandlerParse /\ UNCHANGED <<upstream, calls, fetchVars, svcVars, procVars, clientVars, convVars>>
    \/ HandlerValidate /\ UNCHANGED <<upstream, calls, fetchVars, svcVars, procVars, convVars>>
    \/ HandlerFetch /\ UNCHANGED <<upstream, fetchVars, procVars, filterVars, convVars>>
    \/ HandlerAggregate /\ UNCHANGED <<upstream, calls, fetchVars, procVars, filterVars, clientVars, convVars>>
    \/ HandlerAnalyzed /\ UNCHANGED <<upstream, calls, fetchVars, svcVars, procVars, clientVars, convVars>>
    \/ FilterResponse /\ UNCHANGED <<upstream, calls, fetchVars, svcVars, procVars, clientVars, convVars>>

SpecHandler == InitHandler /\ [][NextHandler]_vars

\* one call of AnalyzeBeneficiaries or AnalyzePayers
InitAnalysis ==
    /\ \E failing \in SUBSET Categories, n \in 0..MaxFeedLen :
           upstream = Upstream(failing, n)
    /\ calls = NoCalls
    /\ svcOutgoing \in BOOLEAN
    /\ svcPc = "fetch"
    /\ svcIdx = 1
    /\ svcTxs = [c \in Categories |-> NilSlice]
    /\ svcRet = NotReturned
    /\ FetchIdle
    /\ ProcIdle
    /\ FilterIdle
    /\ ClientIdle
    /\ ConvIdle

NextAnalysis ==
    \/ SvcFetch /\ UNCHANGED <<upstream, fetchVars, procVars, filterVars, clientVars, convVars>>
    \/ SvcAggregate /\ UNCHANGED <<upstream, calls, fetchVars, procVars, filterVars, clientVars, convVars>>

SpecAnalysis == InitAnalysis /\ [][NextAnalysis]_vars

\* one call of ProcessTransactions
InitProcess ==
    /\ \E shapes \in ShapeSeqs : txCollection = CollectionOf(shapes)
    /\ isOutgoing \in BOOLEAN
    /\ procPc = "start"
    /\ entityMap = EmptyMap
    /\ upstream = Upstream({}, 0)
    /\ calls = NoCalls
    /\ FetchIdle
    /\ SvcIdle
    /\ FilterIdle
    /\ ClientIdle
    /\ ConvIdle

NextProcess == Process /\ UNCHANGED <<upstream, calls, fetchVars, svcVars, filterVars, clientVars, convVars>>

SpecProcess == InitProcess /\ [][NextProcess]_vars

\* one request through parseQueryParams and filterBeneficiaries
InitFilter ==
    /\ query \in Queries
    /\ aggregates \in AggregateLists
    /\ params = DefaultParams
    /\ filterPc = "parse"
    /\ filteredBeneficiaries = NotReturned
    /\ upstream = Upstream({}, 0)
    /\ calls = NoCalls
    /\ FetchIdle
    /\ SvcIdle
    /\ ProcIdle
    /\ ClientIdle
    /\ ConvIdle

NextFilter ==
    \/ ParseRequest /\ UNCHANGED <<upstream, calls, fetchVars, svcVars, procVars, clientVars, convVars>>
    \/ FilterResponse /\ UNCHANGED <<upstream, calls, fetchVars, svcVars, procVars, clientVars, convVars>>

SpecFilter == InitFilter /\ [][NextFilter]_vars

\* the five Get* calls of one request, in any order
InitClient ==
    /\ clientPkg \in ClientPkgs
    /\ reqParams \in RequestParams
    /\ issued = [c \in Categories |-> NoRequest]
    /\ upstream = Upstream({}, 0)
    /\ calls = NoCalls
    /\ FetchIdle
    /\ SvcIdle
    /\ ProcIdle
    /\ FilterIdle
    /\ ConvIdle

NextClient ==
    \E c \in Categories :
        GetTransactions(c) /\ UNCHANGED <<upstream, fetchVars, svcVars, procVars, filterVars,
                                         convVars>>

SpecClient == InitClient /\ [][NextClient]_vars

-----------------------------------------------------------------------------
(* Properties of FetchAllTransactions (Spec)                               *)

Returned == mainPc = "returned"

\* the entries of the returned aggregate error that name category c
EntriesNaming(c) ==
    {i \in 1..Len(fetchRet.err.errors) : fetchRet.err.errors[i].name = TaskName(c)}

\* C1: FetchAllTransactions returns a non-nil error exactly when some
\* category fetch failed, and that error holds one entry per failed category,
\* wrapping that category's cause, and none for a category that succeeded.
C1_ErrorIffSomeFetchFailed ==
    Returned =>
        /\ (~fetchRet.err.isNil) <=> (FailedCategories # {})
        /\ ~fetchRet.err.isNil =>
             /\ Len(fetchRet.err.errors) = Cardinality(FailedCategories)
             /\ \A c \in Categories :
                    /\ Cardinality(EntriesNaming(c)) = (IF Failed(c) THEN 1 ELSE 0)
                    /\ \A i \in EntriesNaming(c) :
                           fetchRet.err.errors[i].cause = upstream[c].err

C1_Witness ==
    /\ Returned
    /\ Cardinality(FailedCategories) = 3
    /\ ~fetchRet.err.isNil
    /\ Len(fetchRet.err.errors) = 3

\* C4: FetchAllTransactions has returned only when each of the five tasks has
\* run to its end, with the answer of its own fetch in hand, whether that
\* answer was a result or a failure.
C4_ReturnsAfterAllTasks ==
    Returned =>
        \A c \in Categories :
            /\ taskPc[c] = "done"
            /\ taskTxs[c] = upstream[c].txs
            /\ taskErr[c] = upstream[c].err

C4_Witness ==
    /\ Returned
    /\ Failed("normal")
    /\ \A c \in Categories \ {"normal"} : ~Failed(c) /\ taskPc[c] = "done"
    /\ Len(fetchRet.collection.slots["erc1155"].elems) > 0

\* C5: when some fetches failed, the returned collection holds in the slot of
\* every category that succeeded exactly the sequence its call returned, and
\* the slot of every failed category is nil.
C5_PartialCollectionKept ==
    (Returned /\ FailedCategories # {}) =>
        \A c \in Categories :
            fetchRet.collection.slots[c] =
                (IF Failed(c) THEN NilSlice ELSE upstream[c].txs)

C5_Witness ==
    /\ Returned
    /\ Failed("internal")
    /\ ~Failed("erc20")
    /\ fetchRet.collection.slots["internal"].isNil
    /\ Len(fetchRet.collection.slots["erc20"].elems) > 0
    /\ fetchRet.collection.slots["erc20"].elems[1].cat = "erc20"

\* the slots the upstream answers determine
ExpectedSlots == [c \in Categories |-> upstream[c].txs]

\* C6: whatever the order in which the tasks complete, a slot is only ever
\* written with its own category's answer, it is written once that category's
\* task has left its critical section, and the returned slots are those the
\* upstream answers determine.
C6_SlotsByCategory ==
    /\ \A c \in Categories :
           /\ result.slots[c] \in {NilSlice, upstream[c].txs}
           /\ taskPc[c] \in {"unlock", "wgdone", "done"} =>
                  result.slots[c] = upstream[c].txs
    /\ Returned => fetchRet.collection.slots = ExpectedSlots

\* the tasks completed against the launch order: the last launched recorded
\* its failure before the first launched, the others stored their records
C6_Witness ==
    /\ Returned
    /\ Len(result.Errors) = 2
    /\ result.Errors[1].name = TaskName("erc1155")
    /\ result.Errors[2].name = TaskName("normal")
    /\ \A c \in {"internal", "erc20", "erc721"} :
           /\ Len(fetchRet.collection.slots[c].elems) > 0
           /\ fetchRet.collection.slots[c].elems[1].cat = c

-----------------------------------------------------------------------------
(* Properties of AnalyzeBeneficiaries / AnalyzePayers (SpecAnalysis)       *)

SvcReturned == svcPc = "returned"

\* C2: when any category fetch fails, the service returns an error and a nil
\* list; no list aggregated from the categories that succeeded is returned.
C2_NoPartialResult ==
    (SvcReturned /\ FailedCategories # {}) =>
        /\ ~svcRet.err.isNil
        /\ svcRet.list.isNil

C2_Witness ==
    /\ SvcReturned
    /\ ~Failed("normal")
    /\ Len(svcTxs["normal"].elems) > 0
    /\ Failed("erc721")
    /\ ~svcRet.err.isNil
    /\ svcRet.list.isNil

\* the returned error names category c
SvcErrorNames(c) == ~svcRet.err.isNil /\ svcRet.err.stage = SvcStageName(c)

\* C3: when two or more category fetches fail, the one error the service
\* returns names every failed category.
C3_EveryFailedCategoryNamed ==
    (SvcReturned /\ Cardinality(FailedCategories) >= 2) =>
        \A c \in FailedCategories : SvcErrorNames(c)

-----------------------------------------------------------------------------
(* Properties of ProcessTransactions (SpecProcess)                         *)

Processed == procPc = "done"

\* the fetched record a history entry was made from
SourceRecord(transaction) ==
    txCollection.slots[transaction.TransactionID[1]].elems[transaction.TransactionID[2]]

History(k) == entityMap[k].Transactions

AllRecords ==
    UNION {{txCollection.slots[c].elems[i] : i \in 1..Len(txCollection.slots[c].elems)}
           : c \in Categories}

HashesIn(k) == {History(k)[j].TransactionID : j \in 1..Len(History(k))}

\* C7: every record in a counterparty's history passes the direction test
\* without regard to case (from = A going out, to = A coming in) and sits in
\* the bucket of its other endpoint; a record neither of whose endpoints is A
\* is in no history.
C7_DirectionTest ==
    Processed =>
        /\ \A k \in DOMAIN entityMap : \A j \in 1..Len(History(k)) :
               LET r == SourceRecord(History(k)[j])
               IN  IF isOutgoing
                   THEN EqualFold(r.from, QueryAddress) /\ k = r.to
                   ELSE EqualFold(r.to, QueryAddress) /\ k = r.from
        /\ \A r \in AllRecords :
               (~EqualFold(r.from, QueryAddress) /\ ~EqualFold(r.to, QueryAddress)) =>
                   \A k \in DOMAIN entityMap : r.hash \notin HashesIn(k)

\* a record whose sender is A in upper case is selected going out, next to a
\* record between two other addresses
C7_Witness ==
    /\ Processed
    /\ isOutgoing
    /\ \E k \in DOMAIN entityMap : \E j \in 1..Len(History(k)) :
           SourceRecord(History(k)[j]).from = Address("a", TRUE)
    /\ \E r \in AllRecords :
           ~EqualFold(r.from, QueryAddress) /\ ~EqualFold(r.to, QueryAddress)

\* C8: every native or internal record in a history has isError = 0: a record
\* with any non-zero error flag is excluded.
C8_NonZeroFlagExcluded ==
    Processed =>
        \A k \in DOMAIN entityMap : \A j \in 1..Len(History(k)) :
            LET r == SourceRecord(History(k)[j])
            IN  r.cat \in {"normal", "internal"} => r.isError = 0

RECURSIVE SumValueBearing(_)
\* the sum of the normalized amounts of the native and internal records a
\* history was made from
SumValueBearing(h) ==
    IF h = <<>> THEN DecZero
    ELSE LET r == SourceRecord(Head(h))
         IN  IF r.cat \in {"normal", "internal"}
             THEN DecAdd(IF r.value = NilBigInt THEN DecZero
                         ELSE DecQuoPow10(r.value, WeiDecimals),
                         SumValueBearing(Tail(h)))
             ELSE SumValueBearing(Tail(h))

\* C9: the running total of every bucket is the sum of the normalized amounts
\* of the native and internal records in its history; the token records in
\* it add nothing.
C9_TotalIsNativePlusInternal ==
    Processed =>
        \A k \in DOMAIN entityMap : entityMap[k].Amount = SumValueBearing(History(k))

\* a bucket holding a native and a token record, the token amount not zero
C9_Witness ==
    /\ Processed
    /\ \E k \in DOMAIN entityMap :
           /\ Len(History(k)) = 2
           /\ SourceRecord(History(k)[1]).cat = "normal"
           /\ SourceRecord(History(k)[2]).cat = "erc20"
           /\ History(k)[2].TxAmount = Dec(5, 0)
           /\ entityMap[k].Amount = Dec(5, -1)

\* the raw amount of a record parses as a base-10 integer
AmountParses(r) ==
    CASE r.cat \in {"normal", "internal", "erc20"} -> r.value # NilBigInt
      [] r.cat = "erc1155" -> r.tokenValue # NilBigInt
      [] OTHER -> TRUE

\* C11: a record whose raw amount does not parse as a base-10 integer (a
\* record with no value among them) is skipped: it is in no history, so it
\* adds to no total and makes no bucket.
C11_UnparsableAmountSkipped ==
    Processed =>
        \A k \in DOMAIN entityMap : \A j \in 1..Len(History(k)) :
            AmountParses(SourceRecord(History(k)[j]))

TokenCategories == {"erc20", "erc721", "erc1155"}

\* the normalized amount of a token record whose raw amount parses
NormalizedTokenAmount(r) ==
    CASE r.cat = "erc20"   -> Dec(r.value.m, r.value.x - r.tokenDecimal)
      [] r.cat = "erc1155" -> Dec(r.tokenValue.m, r.tokenValue.x - r.tokenDecimal)
      [] r.cat = "erc721"  -> DecOne

\* the address on the other side of a record, in the direction of the call
OtherEndpoint(r) == IF isOutgoing THEN r.to ELSE r.from

SelectedByDirection(r) ==
    IF isOutgoing THEN EqualFold(r.from, QueryAddress) ELSE EqualFold(r.to, QueryAddress)

\* C12: every selected token record (its raw amount parsing) is in the
\* history of its counterparty with the normalized amount of its category:
\* value / 10^tokenDecimal for a fungible record, tokenValue / 10^tokenDecimal
\* for a semi-fungible one, exactly 1 for a non-fungible one; and a bucket
\* whose history holds token records only has running total 0 and a non-empty
\* history.
C12_TokenHistoryAmounts ==
    Processed =>
        /\ \A r \in AllRecords :
               (r.cat \in TokenCategories /\ SelectedByDirection(r) /\ AmountParses(r)) =>
                   /\ OtherEndpoint(r) \in DOMAIN entityMap
                   /\ \E j \in 1..Len(History(OtherEndpoint(r))) :
                          /\ History(OtherEndpoint(r))[j].TransactionID = r.hash
                          /\ History(OtherEndpoint(r))[j].TxAmount = NormalizedTokenAmount(r)
        /\ \A k \in DOMAIN entityMap :
               (\A j \in 1..Len(History(k)) :
                    SourceRecord(History(k)[j]).cat \in TokenCategories) =>
                   /\ entityMap[k].Amount = DecZero
                   /\ Len(History(k)) > 0

\* a bucket reached by a fungible transfer of raw 500 with decimal 2 and a
\* non-fungible transfer with decimal 2: amounts 5 and 1, total 0
C12_Witness ==
    /\ Processed
    /\ \E k \in DOMAIN entityMap :
           /\ Len(History(k)) = 2
           /\ SourceRecord(History(k)[1]).cat = "erc20"
           /\ SourceRecord(History(k)[1]).value = Dec(500, 0)
           /\ SourceRecord(History(k)[1]).tokenDecimal = 2
           /\ History(k)[1].TxAmount = Dec(5, 0)
           /\ SourceRecord(History(k)[2]).cat = "erc721"
           /\ SourceRecord(History(k)[2]).tokenDecimal = 2
           /\ History(k)[2].TxAmount = DecOne
           /\ entityMap[k].Amount = DecZero

\* C10: no two buckets of the returned map have addresses that are equal
\* ignoring case.
C10_KeysCaseInsensitive ==
    Processed =>
        \A k1, k2 \in DOMAIN entityMap : EqualFold(k1, k2) => k1 = k2

-----------------------------------------------------------------------------
(* Properties of parseQueryParams and filterBeneficiaries / filterPayers   *)
(* (SpecFilter)                                                            *)

FilterDone == filterPc = "done"

\* the positions of the list put in the response
OutputIndex == 1..Len(filteredBeneficiaries)

\* the total of the i-th entry of the response
OutputTotal(i) == filteredBeneficiaries[i].Amount

\* C13: whenever maxAmount is non-negative, maxAmount = 0 included, no entry
\* of the output has a total above maxAmount.
C13_MaxAmountNonNegative ==
    FilterDone =>
        (params.MaxAmount.m >= 0 =>
            \A i \in OutputIndex : ~DecLess(params.MaxAmount, OutputTotal(i)))

\* an entry passes the three filters of the contract
PassesEveryFilter(e) ==
    /\ ~(e.Amount = DecZero /\ ~params.WithZeroTxs)
    /\ ~DecLess(e.Amount, params.MinAmount)
    /\ ~(params.MaxAmount.m >= 0 /\ DecLess(params.MaxAmount, e.Amount))

\* C14: no entry of the output has a total below minAmount, none has a total
\* of exactly 0 when includeZero is false, and an entry of the input that
\* passes every filter is missing from the output only when the output was
\* cut to the limit.
C14_MinAndZeroFilters ==
    FilterDone =>
        /\ \A i \in OutputIndex :
               /\ ~DecLess(OutputTotal(i), params.MinAmount)
               /\ ~params.WithZeroTxs => OutputTotal(i) # DecZero
        /\ Len(filteredBeneficiaries) < params.Limit =>
               \A j \in 1..Len(aggregates) :
                   PassesEveryFilter(aggregates[j]) =>
                       \E i \in OutputIndex : filteredBeneficiaries[i] = aggregates[j]

\* a request with with_zero_txs=false over a counterparty with total 0 and a
\* counterparty with total 5: only the second is returned
C14_Witness ==
    /\ FilterDone
    /\ ~params.WithZeroTxs
    /\ params.MinAmount = DecZero
    /\ Len(aggregates) = 2
    /\ aggregates[1].Amount = DecZero
    /\ aggregates[2].Amount = Dec(5, 0)
    /\ filteredBeneficiaries = <<aggregates[2]>>

\* the limit the request asks for: 100 when it names none, or zero or less
RequestedLimit ==
    IF query.limit = Absent THEN 100
    ELSE IF query.limit.val.m <= 0 THEN 100
    ELSE query.limit.val.m * Pow10(query.limit.val.x)

\* the entry is one the filter step lets through
LetThrough(e) ==
    /\ ~(e.Amount = DecZero /\ ~params.WithZeroTxs)
    /\ ~DecLess(e.Amount, params.MinAmount)
    /\ ~(DecLess(DecZero, params.MaxAmount) /\ DecLess(params.MaxAmount, e.Amount))

NumLetThrough == Cardinality({j \in 1..Len(aggregates) : LetThrough(aggregates[j])})

C16_OrderedByTotal ==
    FilterDone =>
        \A i, j \in OutputIndex :
            i < j =>
                IF params.Sort = Word("asc")
                THEN ~DecLess(OutputTotal(j), OutputTotal(i))
                ELSE ~DecLess(OutputTotal(i), OutputTotal(j))

\* the position in the input of the i-th entry of the output
InputPosition(i) ==
    CHOOSE j \in 1..Len(aggregates) : aggregates[j] = filteredBeneficiaries[i]

\* C17: entries of equal total are in the output in the order they have in
\* the input, in both directions.
C17_SortIsStable ==
    FilterDone =>
        \A i, j \in OutputIndex :
            (i < j /\ OutputTotal(i) = OutputTotal(j)) =>
                InputPosition(i) < InputPosition(j)

\* C18: the list returned is the same whatever order the map of aggregates
\* was iterated in: every run over the same aggregates and parameters returns
\* this list.
C18_OutputIndependentOfMapOrder ==
    FilterDone =>
        \A order \in PermsOf(aggregates) :
            FilterBeneficiaries(order, params) = {filteredBeneficiaries}

\* C19: every entry of the output is an entry of the input, unchanged in
\* address, total and history, and no entry is in the output twice.
C19_OutputIsSubCollection ==
    FilterDone =>
        /\ \A i \in OutputIndex :
               \E j \in 1..Len(aggregates) :
                   /\ filteredBeneficiaries[i].Address = aggregates[j].Address
                   /\ filteredBeneficiaries[i].Amount = aggregates[j].Amount
                   /\ filteredBeneficiaries[i].Transactions = aggregates[j].Transactions
        /\ \A i, j \in OutputIndex :
               i # j => filteredBeneficiaries[i].Address # filteredBeneficiaries[j].Address

\* two counterparties returned in the reverse of their input order, each
\* with its history
C19_Witness ==
    /\ FilterDone
    /\ Len(aggregates) = 2
    /\ aggregates[1].Amount = Dec(1, 0)
    /\ aggregates[2].Amount = Dec(5, 0)
    /\ Len(aggregates[1].Transactions) = 1
    /\ filteredBeneficiaries = <<aggregates[2], aggregates[1]>>

-----------------------------------------------------------------------------
(* Properties of the clients (SpecClient)                                  *)

\* the upstream action of each category
OwnAction(c) ==
    CASE c = "normal"   -> "txlist"
      [] c = "internal" -> "txlistinternal"
      [] c = "erc20"    -> "tokentx"
      [] c = "erc721"   -> "tokennfttx"
      [] c = "erc1155"  -> "token1155tx"

Requested == {c \in Categories : issued[c] # NoRequest}

\* C20: every category's call requests its own upstream action, and no two
\* categories request the same action.
C20_OwnActionPerCategory ==
    /\ \A c \in Requested : issued[c].action = OwnAction(c)
    /\ \A c, d \in Requested : c # d => issued[c].action # issued[d].action

-----------------------------------------------------------------------------
(* Properties of the fetch stage: calls, mutex, join                       *)

\* C23: a request that reached the fetch stage calls each category's Get*
\* method exactly once, five calls in total, whether or not some fail, and
\* never calls one a second time.
C23_OneFetchPerCategory ==
    /\ \A c \in Categories : calls[c] <= 1
    /\ SvcReturned => \A c \in Categories : calls[c] = 1

\* the tasks between mu.Lock() and mu.Unlock()
InCritical == {c \in Categories : taskPc[c] \in {"crit", "unlock"}}

\* the tasks blocked in mu.Lock()
WaitingForLock == {c \in Categories : taskPc[c] = "lock"}

\* C24: no two tasks are at the same time between acquiring and releasing
\* the mutex that guards result.
C24_MutualExclusion == Cardinality(InCritical) <= 1

\* a failing task in its critical section while two others wait for the mutex
C24_Witness ==
    /\ \E c \in InCritical : Failed(c) /\ taskPc[c] = "crit"
    /\ Cardinality(WaitingForLock) = 2
    /\ \E d \in WaitingForLock : ~Failed(d)

\* the mutex is held by c exactly between c's Lock and c's Unlock
HeldOnlyInCritical ==
    \A c \in Categories : (mu = c) <=> (c \in InCritical)

\* c's fetch has returned and its outcome is in the task's locals
FetchHasReturned(c) ==
    /\ calls[c] = 1
    /\ taskTxs[c] = upstream[c].txs
    /\ taskErr[c] = upstream[c].err

\* a step in which c takes the mutex
Acquires(c) == mu # c /\ mu' = c

\* a step in which c gives the mutex up
Releases(c) == mu = c /\ mu' # c

\* C25: a task never holds the mutex while its fetch is in progress or after
\* its critical section; it takes the mutex only once its fetch has returned,
\* and gives it up, on the success and on the error path alike, after the one
\* update of result and before it signals completion.
C25_NoLockDuringFetch ==
    /\ [](HeldOnlyInCritical /\ \A c \in InCritical : FetchHasReturned(c))
    /\ [][\A c \in Categories :
            /\ Acquires(c) => (taskPc[c] = "lock" /\ FetchHasReturned(c))
            /\ Releases(c) => (taskPc[c] = "unlock" /\ taskPc'[c] = "wgdone"
                                /\ mu' = "free")]_vars

\* a failing task has recorded its error and still holds the mutex while
\* another task's fetch is in progress and a third has left its critical
\* section
C25_Witness ==
    /\ \E c \in Categories : Failed(c) /\ taskPc[c] = "unlock" /\ mu = c
                              /\ Len(result.Errors) > 0
    /\ \E d \in Categories : taskPc[d] = "fetch" /\ calls[d] = 0
    /\ \E e \in Categories : ~Failed(e) /\ taskPc[e] \in {"wgdone", "done"}

\* every task has released the mutex and signalled completion
AllTasksDone ==
    /\ \A c \in Categories : taskPc[c] = "done"
    /\ mu = "free"
    /\ wg = 0

\* C28: when every upstream call returns, FetchAllTransactions terminates:
\* short of its return some goroutine can always take a step (no deadlock),
\* and in every fair interleaving all five tasks release the mutex and
\* signal completion, the counter reaches zero and the function returns.
C28_FetchAllTerminates ==
    /\ [](~Returned => ENABLED FetchNext)
    /\ [](Returned => AllTasksDone)
    /\ <>[](Returned /\ AllTasksDone)

\* returned after three categories failed and two succeeded
C28_Witness ==
    /\ Returned
    /\ AllTasksDone
    /\ FailedCategories = {"internal", "erc20", "erc1155"}
    /\ Len(fetchRet.err.errors) = 3
    /\ \A c \in {"normal", "erc721"} : Len(fetchRet.collection.slots[c].elems) = MaxFeedLen

\* the tasks that have run their completion step (the update of result)
Completed == {c \in Categories : taskPc[c] \in {"unlock", "wgdone", "done"}}

\* the slots of result that a task has assigned
AssignedSlots == {c \in Categories : ~result.slots[c].isNil}

\* the step in which task c records its outcome
CompletionStep(c) == taskPc[c] = "crit" /\ taskPc'[c] = "unlock"

\* what the completion step of c may change in result
OwnSlotOrErrorList(c) ==
    /\ \A d \in Categories \ {c} : result'.slots[d] = result.slots[d]
    /\ IF Failed(c)
       THEN /\ result'.slots[c] = result.slots[c]
            /\ result'.slots[c].isNil
            /\ Len(result'.Errors) = Len(result.Errors) + 1
            /\ SubSeq(result'.Errors, 1, Len(result.Errors)) = result.Errors
            /\ result'.Errors[Len(result'.Errors)].name = TaskName(c)
       ELSE /\ result'.Errors = result.Errors
            /\ result.slots[c].isNil
            /\ ~result'.slots[c].isNil

\* C29: the completion step of a task changes only its own slot (success)
\* or only the error list (failure, its slot staying empty); nothing else
\* changes result and a completed task never completes again, so the error
\* entries and the assigned slots together count the completed tasks, five
\* of them when FetchAllTransactions returns.
C29_CompletionFrame ==
    /\ [](/\ Len(result.Errors) + Cardinality(AssignedSlots) = Cardinality(Completed)
          /\ Returned => Len(result.Errors) + Cardinality(AssignedSlots) = 5)
    /\ [][/\ \A c \in Categories : CompletionStep(c) => OwnSlotOrErrorList(c)
          /\ result' # result => \E c \in Categories : CompletionStep(c)
          /\ \A c \in Completed : c \in Completed']_vars

\* two tasks have failed, two have assigned their slots and the fifth is in
\* its critical section, about to assign the slot between two assigned ones
C29_Witness ==
    /\ Len(result.Errors) = 2
    /\ AssignedSlots = {"normal", "erc20"}
    /\ taskPc["internal"] = "crit"
    /\ ~Failed("internal")
    /\ Len(result.slots["erc20"].elems) = MaxFeedLen

-----------------------------------------------------------------------------
(* Buckets and histories of ProcessTransactions (SpecProcess)              *)

\* the places (bucket, position) of the histories
HistoryEntries ==
    UNION {{<<k, j>> : j \in 1..Len(History(k))} : k \in DOMAIN entityMap}

\* the places where the record with hash h was appended
Occurrences(h) == {p \in HistoryEntries : History(p[1])[p[2]].TransactionID = h}

\* a native or internal record flagged as failed is skipped by its loop
SkippedAsFailed(r) == r.cat \in {"normal", "internal"} /\ r.isError = 1

\* C27: in one call (one direction) every fetched record is appended at most
\* once and to the bucket of its other endpoint only; a record from the
\* queried address to itself goes once to the bucket of that address.
C27_OneBucketPerRecord ==
    Processed =>
        \A r \in AllRecords :
            /\ Cardinality(Occurrences(r.hash)) <= 1
            /\ \A p \in Occurrences(r.hash) : p[1] = OtherEndpoint(r)
            /\ (r.from = QueryAddress /\ r.to = QueryAddress /\ ~SkippedAsFailed(r)) =>
                   /\ Cardinality(Occurrences(r.hash)) = 1
                   /\ \A p \in Occurrences(r.hash) : p[1] = QueryAddress

\* a token transfer from the queried address to itself next to a transfer to
\* another address: one entry each, in two buckets
C27_Witness ==
    /\ Processed
    /\ Cardinality(HistoryEntries) = 2
    /\ Cardinality(DOMAIN entityMap) = 2
    /\ \E r \in AllRecords :
           /\ r.cat = "erc1155"
           /\ r.from = QueryAddress /\ r.to = QueryAddress
           /\ Occurrences(r.hash) = {<<QueryAddress, 1>>}

\* the place of each category in the order of the five loops
CategoryRank(c) ==
    CASE c = "normal"   -> 1
      [] c = "internal" -> 2
      [] c = "erc20"    -> 3
      [] c = "erc721"   -> 4
      [] c = "erc1155"  -> 5

\* entry a of a history comes before entry b by category, then feed position
Precedes(a, b) ==
    \/ CategoryRank(a.TransactionID[1]) < CategoryRank(b.TransactionID[1])
    \/ /\ a.TransactionID[1] = b.TransactionID[1]
       /\ a.TransactionID[2] < b.TransactionID[2]

\* C30: every bucket's history lists its native records first, then the
\* internal, fungible, non-fungible and semi-fungible ones, the records of one
\* category in the order of that category's fetched sequence; and every
\* bucket has at least one history entry.
C30_HistoryOrder ==
    Processed =>
        \A k \in DOMAIN entityMap :
            /\ Len(History(k)) >= 1
            /\ \A i, j \in 1..Len(History(k)) :
                   i < j => Precedes(History(k)[i], History(k)[j])

\* a bucket holding the first and the second record of the native feed, in
\* that order
C30_Witness ==
    /\ Processed
    /\ \E k \in DOMAIN entityMap :
           /\ Len(History(k)) = 2
           /\ History(k)[1].TransactionID = <<"normal", 1>>
           /\ History(k)[2].TransactionID = <<"normal", 2>>

-----------------------------------------------------------------------------
(* Properties of the conversions (SpecConversions)                         *)

\* the digit a character stands for
DigitOf(ch) ==
    CASE ch = "0" -> 0 [] ch = "1" -> 1 [] ch = "2" -> 2 [] ch = "3" -> 3
      [] ch = "4" -> 4 [] ch = "5" -> 5 [] ch = "6" -> 6 [] ch = "7" -> 7
      [] ch = "8" -> 8 [] ch = "9" -> 9

RECURSIVE TenTo(_)
TenTo(n) == IF n = 0 THEN 1 ELSE 10 * TenTo(n - 1)

RECURSIVE PlaceValueSum(_)
\* the digits weighted by their place: the last digit counts ones
PlaceValueSum(ds) ==
    IF ds = <<>> THEN 0
    ELSE DigitOf(Head(ds)) * TenTo(Len(ds) - 1) + PlaceValueSum(Tail(ds))

\* the integer a base-10 text denotes
IntegerOf(chars) ==
    IF Head(chars) = "-" THEN 0 - PlaceValueSum(Tail(chars))
    ELSE IF Head(chars) = "+" THEN PlaceValueSum(Tail(chars))
    ELSE PlaceValueSum(chars)

RECURSIVE TrailingZeros(_)
\* how many times 10 divides the non-zero integer n
TrailingZeros(n) == IF n % 10 # 0 THEN 0 ELSE 1 + TrailingZeros(n \div 10)

RECURSIVE WithoutTrailingZeros(_)
WithoutTrailingZeros(n) == IF n % 10 # 0 THEN n ELSE WithoutTrailingZeros(n \div 10)

\* the decimal d (d.m * 10^d.x) equals n / 10^e
EqualsQuotient(d, n, e) ==
    IF n = 0 THEN d.m = 0
    ELSE /\ d.m # 0
         /\ WithoutTrailingZeros(d.m) = WithoutTrailingZeros(n)
         /\ d.x + TrailingZeros(d.m) = TrailingZeros(n) - e

\* the exponent the called conversion divides by
ExponentOfCall == IF convCall = "ConvertWeiToEther" THEN 18 ELSE convDecimal

\* C22: for every base-10 integer text s and exponent e the conversion
\* returns the integer of s divided by 10^e, e being 18 for ConvertWeiToEther
\* and tokenDecimal for ConvertTokenValueWithDecimals; the text "0" gives 0
\* at every exponent.
C22_NormalizedQuotient ==
    convCall # "none" =>
        /\ EqualsQuotient(convAmount, IntegerOf(convValue.chars), ExponentOfCall)
        /\ convValue.chars = <<"0">> => convAmount.m = 0

\* "50" with two decimals converted to 0.5
C22_Witness ==
    /\ convCall = "ConvertTokenValueWithDecimals"
    /\ convValue.chars = <<"5", "0">>
    /\ convDecimal = 2
    /\ convAmount.m = 5
    /\ convAmount.x = 0 - 1

-----------------------------------------------------------------------------
(* Properties of the handlers from request to response (SpecHandler)       *)

\* the address of the request is missing, or does not start with 0x (in
\* either case of the x), or is not 42 characters long
MissingOrMalformedAddress ==
    \/ query.address = Absent
    \/ query.address.prefix \notin {"0x", "0X"}
    \/ query.address.len # 42

\* the text is given and is not that of a number
NotANumber(s) == s # Absent /\ s.text # "number"

\* the text is given and is not that of an integer
NotAnInteger(s) == s # Absent /\ (s.text # "number" \/ s.val.x < 0)

\* some numeric parameter of the request does not parse
UnparsableNumericParameter ==
    \/ NotANumber(query.min)
    \/ NotANumber(query.max)
    \/ NotAnInteger(query.sblock)
    \/ NotAnInteger(query.eblock)
    \/ NotAnInteger(query.page)
    \/ NotAnInteger(query.offset)
    \/ NotAnInteger(query.limit)

\* the handler has written its response
Responded == filterPc \in {"rejected", "failed", "done"}

NoUpstreamCall == \A c \in Categories : calls[c] = 0 /\ issued[c] = NoRequest

\* C21: for a request whose address is missing or malformed, or one of whose
\* numeric parameters does not parse, no Get* method of the client is ever
\* called, and the response the handler writes is the client error (400).
C21_RejectedBeforeFetch ==
    (MissingOrMalformedAddress \/ UnparsableNumericParameter) =>
        /\ NoUpstreamCall
        /\ filterPc \in {"parse", "validate", "rejected"}
        /\ UnparsableNumericParameter => filterPc \in {"parse", "rejected"}
        /\ Responded => filterPc = "rejected"

\* a request whose numbers all parse and whose address is one character
\* short, rejected after validateAddress with the upstream ready to answer
C21_Witness ==
    /\ filterPc = "rejected"
    /\ ~UnparsableNumericParameter
    /\ query.address = AddressText("0x", 41, QueryAddress)
    /\ query.page = NumberText(Dec(2, 0))
    /\ FailedCategories = {}
    /\ NoUpstreamCall

\* the integer a number text of the request denotes
IntegerIn(s) == s.val.m * TenTo(s.val.x)

\* the page the upstream is to be asked for
PageToSend == IF query.page = Absent \/ IntegerIn(query.page) <= 0 THEN 1
              ELSE IntegerIn(query.page)

\* the page size the upstream is to be asked for
OffsetToSend == IF query.offset = Absent \/ IntegerIn(query.offset) <= 0 THEN 100
                ELSE IntegerIn(query.offset)

\* the sort order the upstream is to be asked for: asc or desc when the
\* request says so in any case of letters, desc otherwise
SortToSend ==
    IF query.sort # Absent /\ query.sort.text = "word" /\ query.sort.word \in {"asc", "desc"}
    THEN Word(query.sort.word)
    ELSE Word("desc")

====
